---- MODULE Spec2Model ----
(***************************************************************************)
(* Model of the 17-step progressive admission search of new_api:           *)
(* ClickHouseMedicalSearchService (the relaxation driver, the step         *)
(* catalog, the input normalizer), MedicalSearchService.search_structured, *)
(* the two endpoints of MedicalSearchController and the start-up of        *)
(* Kernel.lifespan.                                                        *)
(*                                                                         *)
(* Text values: opaque names (hospital code, payer, doctor, ...) are TLA+  *)
(* strings; values whose inner structure the code looks at (ICD code       *)
(* lists, the stored code fields, LengthOfStay) are sequences of           *)
(* one-character strings.                                                  *)
(***************************************************************************)
EXTENDS Integers, Sequences, FiniteSets, TLC

VARIABLES
    svc,                  \* lifespan: "starting" | "serving" | "failed"
    client,               \* self.client: "none" | "ok" | "broken"
    found_admission_ids,  \* self.found_admission_ids (field of the singleton)
    results,              \* self.results (field of the singleton)
    pc,                   \* per request slot: position of its coroutine
    req,                  \* per request slot: the request being handled
    processed_data,       \* per slot: local processed_data of the search
    stage,                \* per slot: loop index i of the driver
    inflight,             \* per slot: exclusion ids the dispatched query was built with
    outcome,              \* per slot: list returned by search_similar_admissions
    response,             \* per slot: what the endpoint answered
    own,                  \* history: rows this slot's own stage queries returned
    queries,              \* history: stages whose query this slot handed to the executor
    failed,               \* history: stages of this slot that failed (query error or raise)
    call                  \* the last application of a function of the service, with its result

vars == <<svc, client, found_admission_ids, results, pc, req, processed_data,
          stage, inflight, outcome, response, own, queries, failed, call>>

----------------------------------------------------------------------------
(* Bounds of the model                                                     *)

MaxN == 4            \* largest max_results a modelled request asks for
MaxFailures == 1     \* most query failures injected into one search
NumSlots == 2        \* request slots of the service
MaxCodes == 2        \* longest code list given to the code filters and scores
MaxRows == 3         \* longest search result given to the endpoints' enrichment
MaxItems == 2        \* most items in an answer of the pricing engine

(* Program constants                                                       *)

NumSteps == 17       \* len(steps)
Limit == 50          \* LIMIT 50 of every step query
MaxResultsGe == 1    \* max_results: Field(ge=1)
MaxResultsLe == 20   \* max_results: Field(le=20)
UnknownStep == 999   \* get_step_number fallback

Slots == 1..NumSlots
Steps == 1..NumSteps

----------------------------------------------------------------------------
(* Generic helpers                                                         *)

Min(a, b) == IF a < b THEN a ELSE b
Abs(x) == IF x < 0 THEN -x ELSE x
Take(s, n) == SubSeq(s, 1, Min(Len(s), IF n < 0 THEN 0 ELSE n))
Range(s) == {s[i] : i \in 1..Len(s)}
NoDup(s) == \A i, j \in 1..Len(s) : i # j => s[i] # s[j]

\* variant: the cut keeps the end of the list
PySliceTail(s, n) == SubSeq(s, Len(s) - Min(Len(s), n) + 1, Len(s))

\* variant: the cut is left out
PySliceAll(s, n) == s

\* Python slice s[:n] (a negative n counts from the end)
PySlice(s, n) == IF n >= 0 THEN Take(s, n)
                 ELSE Take(s, IF Len(s) + n < 0 THEN 0 ELSE Len(s) + n)

\* needle occurs in hay as a contiguous run (SQL LIKE '%needle%')
Contains(hay, needle) ==
    \E i \in 0..(Len(hay) - Len(needle)) :
        \A j \in 1..Len(needle) : hay[i + j] = needle[j]

RECURSIVE JoinWith(_, _)
JoinWith(codes, sep) ==
    IF Len(codes) = 0 THEN <<>>
    ELSE IF Len(codes) = 1 THEN codes[1]
    ELSE codes[1] \o sep \o JoinWith(Tail(codes), sep)

RECURSIVE CountChar(_, _)
CountChar(s, ch) ==
    IF Len(s) = 0 THEN 0
    ELSE (IF s[1] = ch THEN 1 ELSE 0) + CountChar(Tail(s), ch)

Digits == <<"0", "1", "2", "3", "4", "5", "6", "7", "8", "9">>

RECURSIVE NatStr(_)
NatStr(n) == IF n < 10 THEN <<Digits[n + 1]>>
             ELSE NatStr(n \div 10) \o <<Digits[(n % 10) + 1]>>

\* Python str(int)
IntStr(n) == IF n < 0 THEN <<"-">> \o NatStr(-n) ELSE NatStr(n)

DigitVal(ch) == CHOOSE d \in 0..9 : Digits[d + 1] = ch
IsDigit(ch) == \E d \in 0..9 : Digits[d + 1] = ch

RECURSIVE NatVal(_)
NatVal(s) == IF Len(s) = 0 THEN 0
             ELSE 10 * NatVal(SubSeq(s, 1, Len(s) - 1)) + DigitVal(s[Len(s)])

\* ClickHouse toInt32OrZero on a String column
ToInt32OrZero(s) ==
    IF Len(s) > 0 /\ \A i \in 1..Len(s) : IsDigit(s[i]) THEN NatVal(s)
    ELSE IF Len(s) > 1 /\ s[1] = "-" /\ \A i \in 2..Len(s) : IsDigit(s[i])
         THEN -NatVal(Tail(s))
    ELSE 0

----------------------------------------------------------------------------
(* Dates.  A date text is [form, y, m, d]:                                 *)
(*   "iso"   2020-03-09T10:00:00 (optionally Z)   "mysql" 2020-03-09 10:00:00 *)
(*   "date"  2020-03-09                           "bad"   any other text    *)
(*   "none"  key absent or empty string                                    *)
(* h is the hour of the day of a date-time text (0 for a date-only text).  *)

DateTimeText(form, y, m, d, h) == [form |-> form, y |-> y, m |-> m, d |-> d, h |-> h]
DateText(form, y, m, d) == DateTimeText(form, y, m, d, 0)
NoDate == DateText("none", 0, 0, 0)
BadDate == DateText("bad", 0, 0, 0)

\* days since 1970-01-01 of a civil date (proleptic Gregorian)
DaysFromCivil(y, m, d) ==
    LET yy == IF m <= 2 THEN y - 1 ELSE y
        era == yy \div 400
        yoe == yy - era * 400
        mp == (m + 9) % 12
        doy == (153 * mp + 2) \div 5 + d - 1
        doe == yoe * 365 + yoe \div 4 - yoe \div 100 + doy
    IN era * 146097 + doe - 719468

\* parse_datetime: fromisoformat when the text has a T or Z, else
\* strptime '%Y-%m-%d %H:%M:%S'; anything else raises
ParseDatetimeOk(t) == t.form \in {"iso", "mysql"}

\* datetime.strptime(birthdate, '%Y-%m-%d')
ParseBirthOk(t) == t.form = "date"

LosUnknown == [known |-> FALSE, days |-> 0]
LosDays(n) == [known |-> TRUE, days |-> n]

\* str(calculated_los)
LosStr(los) == IF los.known THEN IntStr(los.days) ELSE <<>>

\* variant: the comparison written with <=
AgeAtAdmissionLe(adm, birth) ==
    (adm.y - birth.y)
    - (IF adm.m < birth.m \/ (adm.m = birth.m /\ adm.d <= birth.d) THEN 1 ELSE 0)

\* admission.year - birth.year, minus 1 when (month, day) of the admission
\* is before (month, day) of the birth
AgeAtAdmission(adm, birth) ==
    (adm.y - birth.y)
    - (IF adm.m < birth.m \/ (adm.m = birth.m /\ adm.d < birth.d) THEN 1 ELSE 0)

NormalizeRaises(c) ==
    \/ ~ParseDatetimeOk(c.admission_date)
    \/ ~ParseBirthOk(c.birthdate)
    \/ (c.discharge_date.form # "none" /\ ~ParseDatetimeOk(c.discharge_date))

\* variant: elapsed 24-hour periods, (discharge_date - admission_date).days
StayDaysElapsed(adm, dis) ==
    ((DaysFromCivil(dis.y, dis.m, dis.d) * 24 + dis.h)
     - (DaysFromCivil(adm.y, adm.m, adm.d) * 24 + adm.h)) \div 24

\* (discharge_date.date() - admission_date.date()).days
StayDays(adm, dis) == DaysFromCivil(dis.y, dis.m, dis.d) - DaysFromCivil(adm.y, adm.m, adm.d)

\* variant: the defaults carry no date strings
FallbackDataNoDates(c) ==
    [crit |-> c, calculated_age |-> 0, calculated_los |-> LosUnknown,
     formatted_admission_date |-> NoDate, formatted_birth_date |-> NoDate]

\* the except branch of _calculate_age_and_los: the defaults
FallbackData(c) ==
    [crit |-> c, calculated_age |-> 0, calculated_los |-> LosUnknown,
     formatted_admission_date |-> c.admission_date,
     formatted_birth_date |-> c.birthdate]

\* _calculate_age_and_los: the criteria plus calculated_age, calculated_los
\* and the two formatted dates
CalculateAgeAndLos(c) ==
    IF NormalizeRaises(c) THEN FallbackData(c)
    ELSE [crit |-> c,
          calculated_age |-> AgeAtAdmission(c.admission_date, c.birthdate),
          calculated_los |->
              IF c.discharge_date.form = "none" THEN LosUnknown
              ELSE LosDays(StayDays(c.admission_date, c.discharge_date)),
          formatted_admission_date |-> [c.admission_date EXCEPT !.form = "mysql"],
          formatted_birth_date |-> [c.birthdate EXCEPT !.form = "date"]]

----------------------------------------------------------------------------
(* Criteria: a mapping field name -> value; an empty value ("", <<>>,      *)
(* NoDate) stands for a field that is absent from the mapping.             *)

ListFields == {"icd10", "icd9"}
DateFields == {"birthdate", "admission_date", "discharge_date"}
StrFields == {"class_id", "class_name", "hospital_code", "hospital_name", "archetype",
              "hospital_region", "gender", "primary_doctor", "admission_type",
              "anesthesia_doctor", "anesthesia_type", "surgery_nature", "payer_type",
              "payer_name", "doctor_specialty"}
AllFields == StrFields \cup ListFields \cup DateFields

EmptyValue(f) == IF f \in ListFields THEN <<>>
                 ELSE IF f \in DateFields THEN NoDate ELSE ""
IsEmptyValue(f, v) == v = EmptyValue(f)

\* nonstr: the text fields whose value is a truthy non-string object (only a
\* direct caller of search_similar_admissions can pass one)
NoCriteria == [f \in AllFields |-> EmptyValue(f)] @@ [nonstr |-> {}]

Blank == " "
Strip(v) == IF v = Blank THEN "" ELSE v

----------------------------------------------------------------------------
(* The admission table: one row per AdmissionId.                           *)

Sep == <<";", " ">>      \* "; ".join(codes)
CodeA == <<"A", "1">>
CodeB == <<"B", "2">>
CodeP == <<"P", "7">>
CodeQ == <<"Q", "8">>

Row(id, dx, px, org, payer, ptype, doc, spec, los, adm, sex, andoc, antype, arch, reg, by, ad) ==
    [AdmissionId |-> id, DiseaseClassification |-> dx, ProcedureClassification |-> px,
     OrganizationCode |-> org, PayerName |-> payer, PayerType |-> ptype,
     PrimaryDoctor |-> doc, Specialty |-> spec, LengthOfStay |-> los,
     AdmissionTypeName |-> adm, Sex |-> sex, AnesthesiaDoctor |-> andoc,
     AnesthesiaType |-> antype, Archetype |-> arch, Region |-> reg,
     BirthYear |-> by, AdmissionDay |-> ad]

Store ==
    { Row(1, CodeA, CodeP, "SH", "PY", "PT", "DR", "S1", <<"3">>, "IN", "M", "AD", "GA",
          "AR", "RG", 2000, DaysFromCivil(2021, 1, 1)),
      Row(2, CodeA, CodeP, "SH", "PY", "PT", "DR", "S1", <<"5">>, "IN", "F", "", "",
          "AR", "RG", 1998, DaysFromCivil(2020, 12, 1)),
      Row(3, CodeA, CodeP, "SH", "PY", "PT", "D3", "SP", <<"2">>, "OUT", "M", "", "",
          "AR", "RG", 2001, DaysFromCivil(2020, 11, 1)),
      Row(4, CodeA, CodeP, "SH", "PY", "PT", "D4", "SP", <<"3">>, "IN", "M", "", "",
          "AR", "RG", 2000, DaysFromCivil(2020, 10, 1)),
      Row(5, JoinWith(<<CodeA, CodeB>>, Sep), JoinWith(<<CodeP, CodeQ>>, Sep),
          "H2", "P2", "PT", "D5", "S2", <<>>, "IN", "F", "", "",
          "A2", "RG", 1990, DaysFromCivil(2019, 1, 1)),
      Row(6, CodeA, CodeP, "SH", "PY", "PT", "D6", "SP", <<"1", "0">>, "IN", "F", "", "",
          "AR", "RG", 2000, DaysFromCivil(2020, 10, 1)) }

StoreIds == {r.AdmissionId : r \in Store}

\* the stored record of an admission
StoreRow(id) == CHOOSE r \in Store : r.AdmissionId = id

----------------------------------------------------------------------------
(* _calculate_icd_scores                                                   *)

\* variant: the step types of the last two steps are exchanged
StepTypeLastSwapped(k) == IF k <= 14 THEN "exact"
                          ELSE IF k = 15 THEN "mixed"
                          ELSE IF k = 16 THEN "icd9_only_partial"
                          ELSE "icd9_only_exact"

StepType(k) == IF k <= 14 THEN "exact"
               ELSE IF k = 15 THEN "mixed"
               ELSE IF k = 16 THEN "icd9_only_exact"
               ELSE "icd9_only_partial"

\* build_exact_codes_string
BuildExactCodesString(codes) == JoinWith(codes, Sep)

\* variant: an empty code list is compared like any other
ExactFilterNoVacuous(codes, field) == field = BuildExactCodesString(codes)

\* variant: the codes are compared in either order
ExactFilterAnyOrder(codes, field) ==
    \/ codes = <<>>
    \/ field = BuildExactCodesString(codes)
    \/ field = BuildExactCodesString([i \in 1..Len(codes) |-> codes[Len(codes) + 1 - i]])

ExactFilter(codes, field) == codes = <<>> \/ field = BuildExactCodesString(codes)

\* variant: the LIKE conditions are joined with AND
PartialFilterAllCodes(codes, field) ==
    codes = <<>> \/ \A i \in 1..Len(codes) : Contains(field, codes[i])

PartialFilter(codes, field) ==
    codes = <<>> \/ \E i \in 1..Len(codes) : Contains(field, codes[i])

StepTypes == {"exact", "partial", "mixed", "icd9_only_exact", "icd9_only_partial"}

Icd10Filter(type, c, row) ==
    CASE type = "exact" -> ExactFilter(c.icd10, row.DiseaseClassification)
      [] type \in {"partial", "mixed"} -> PartialFilter(c.icd10, row.DiseaseClassification)
      [] OTHER -> TRUE

Icd9Filter(type, c, row) ==
    CASE type \in {"exact", "mixed", "icd9_only_exact"} ->
             ExactFilter(c.icd9, row.ProcedureClassification)
      [] OTHER -> PartialFilter(c.icd9, row.ProcedureClassification)

\* variant: the penalty test written with >=
BuildEnhancedScoreGe(codes, field) ==
    IF codes = <<>> THEN 0
    ELSE 10 * Cardinality({i \in 1..Len(codes) : Contains(field, codes[i])})
         + (IF CountChar(field, ";") + 1 >= Len(codes) THEN -1 ELSE 0)

\* build_enhanced_score, in tenths (the penalty -0.1 is -1)
BuildEnhancedScore(codes, field) ==
    IF codes = <<>> THEN 0
    ELSE 10 * Cardinality({i \in 1..Len(codes) : Contains(field, codes[i])})
         + (IF CountChar(field, ";") + 1 > Len(codes) THEN -1 ELSE 0)

\* the icd10_score / icd9_score expressions, in tenths
Icd10Score(type, c, row) ==
    CASE type = "exact" -> IF c.icd10 # <<>> THEN 10 ELSE 0
      [] type \in {"partial", "mixed"} -> BuildEnhancedScore(c.icd10, row.DiseaseClassification)
      [] OTHER -> 0

Icd9Score(type, c, row) ==
    CASE type \in {"exact", "icd9_only_exact"} -> IF c.icd9 # <<>> THEN 10 ELSE 0
      [] OTHER -> BuildEnhancedScore(c.icd9, row.ProcedureClassification)

\* the score columns a step query selects, in tenths: step 1 selects
\* {icd10_count} and {icd9_count} (the lengths of the code lists), steps 15-17
\* the score expressions of _calculate_icd_scores
EmitsIcd10(k) == k \in {1, 15}
EmitsIcd9(k) == k \in {1, 15, 16, 17}

Icd10MatchCount(k, c, row) ==
    IF k = 1 THEN 10 * Len(c.icd10) ELSE Icd10Score(StepType(k), c, row)

Icd9MatchCount(k, c, row) ==
    IF k = 1 THEN 10 * Len(c.icd9) ELSE Icd9Score(StepType(k), c, row)

----------------------------------------------------------------------------
(* Conditions                                                              *)

\* _build_condition returns "" (no condition) for an empty or blank value
ConditionSkipped(value) == value = "" \/ Strip(value) = ""

\* _build_condition(field, value) applied to a row
BuildCondition(stored, value) == ConditionSkipped(value) \/ stored = value

\* _build_condition('LengthOfStay', str(calculated_los))
BuildLosCondition(stored, los) == LosStr(los) = <<>> \/ stored = LosStr(los)

\* _build_condition raises AttributeError on a truthy value without .strip
Step1Raises(c) ==
    c.nonstr \cap {"hospital_code", "payer_name", "primary_doctor", "admission_type",
                   "gender", "anesthesia_doctor", "anesthesia_type"} # {}

\* the WHERE clause of step k without its exclusion clause
StepFilter(k, pd, row) ==
    LET c == pd.crit
        icd == /\ Icd10Filter(StepType(k), c, row)
               /\ Icd9Filter(StepType(k), c, row)
        org == row.OrganizationCode = c.hospital_code
        payer == row.PayerName = c.payer_name
        doctor == row.PrimaryDoctor = c.primary_doctor
        los == row.LengthOfStay = LosStr(pd.calculated_los)
        adm == row.AdmissionTypeName = c.admission_type
        sex == row.Sex = c.gender
    IN CASE k = 1 -> /\ icd
                     /\ BuildCondition(row.OrganizationCode, c.hospital_code)
                     /\ BuildCondition(row.PayerName, c.payer_name)
                     /\ BuildCondition(row.PrimaryDoctor, c.primary_doctor)
                     /\ BuildLosCondition(row.LengthOfStay, pd.calculated_los)
                     /\ BuildCondition(row.AdmissionTypeName, c.admission_type)
                     /\ BuildCondition(row.Sex, c.gender)
                     /\ BuildCondition(row.AnesthesiaDoctor, c.anesthesia_doctor)
                     /\ BuildCondition(row.AnesthesiaType, c.anesthesia_type)
         [] k = 2 -> icd /\ org /\ payer /\ doctor /\ los /\ adm /\ sex
                     /\ row.AnesthesiaType = c.anesthesia_type
         [] k = 3 -> icd /\ org /\ payer /\ doctor /\ los /\ adm /\ sex
         [] k = 4 -> icd /\ org /\ payer /\ doctor /\ los /\ adm
         [] k \in {5, 6} -> icd /\ org /\ payer /\ doctor
         [] k = 7 -> icd /\ org /\ payer /\ row.Specialty = c.doctor_specialty
         [] k = 8 -> icd /\ org /\ payer
         [] k = 9 -> icd /\ org /\ row.PayerType = c.payer_type
         [] k = 10 -> icd /\ org
         [] k \in {11, 12} -> icd /\ row.Archetype = c.archetype
         [] k = 13 -> icd /\ row.Region = c.hospital_region
         [] OTHER -> icd

\* variant: no step carries the exclusion clause
StepExcludesNothing(k, ids) == {}

\* _get_exclusion_clause: AdmissionId NOT IN (ids); step 1 builds its WHERE
\* clause with _build_conditions and carries no exclusion clause
\* variant: the second step is built without the exclusion clause too
StepExcludesFromThird(k, ids) == IF k <= 2 THEN {} ELSE ids

StepExcludes(k, ids) == IF k = 1 THEN {} ELSE ids

----------------------------------------------------------------------------
(* Sort keys of the step queries                                           *)

\* abs(dateDiff('year', BirthDate, toDate('<formatted_birth_date>'))) and
\* abs(dateDiff('day', AdmissionDate, parseDateTime('<formatted_admission_date>')));
\* a text the store cannot parse reads as year 0
AgeDiff(pd, row) == Abs(row.BirthYear - pd.formatted_birth_date.y)

DateDiff(pd, row) ==
    Abs(row.AdmissionDay - DaysFromCivil(pd.formatted_admission_date.y,
                                         pd.formatted_admission_date.m,
                                         pd.formatted_admission_date.d))

\* variant: an unknown duration is taken as 0
LosDiffUnknownAsZero(pd, row) == Abs(ToInt32OrZero(row.LengthOfStay) - pd.calculated_los.days)

\* _get_los_diff_calculation
LosDiff(pd, row) ==
    IF ~pd.calculated_los.known THEN 0
    ELSE Abs(ToInt32OrZero(row.LengthOfStay) - pd.calculated_los.days)

\* CASE WHEN <column> = '<value>' THEN 0 ELSE 1 END
Priority(stored, value) == IF stored = value THEN 0 ELSE 1

\* the ORDER BY list of step k, every key ascending (a DESC key is negated)
SortKey(k, pd, row) ==
    LET c == pd.crit
        tail == <<AgeDiff(pd, row), LosDiff(pd, row), DateDiff(pd, row)>>
        gender == Priority(row.Sex, c.gender)
        adm == Priority(row.AdmissionTypeName, c.admission_type)
        doctor == Priority(row.PrimaryDoctor, c.primary_doctor)
    IN CASE k <= 4 -> <<AgeDiff(pd, row), DateDiff(pd, row)>>
         [] k = 5 -> <<gender>> \o tail
         [] k \in 6..8 -> <<adm, gender>> \o tail
         [] k \in {9, 10, 12, 13} -> <<doctor, adm, gender>> \o tail
         [] k = 11 -> <<Priority(row.PayerName, c.payer_name),
                        Priority(row.PayerType, c.payer_type),
                        doctor, adm, gender>> \o tail
         [] k = 14 -> <<Priority(row.OrganizationCode, c.hospital_code),
                        Priority(row.Region, c.hospital_region),
                        Priority(row.Archetype, c.archetype),
                        doctor, adm, gender>> \o tail
         [] k = 15 -> <<-Icd9Score("mixed", c, row), -Icd10Score("mixed", c, row)>> \o tail
         [] OTHER -> <<-Icd9Score(StepType(k), c, row)>> \o tail

RECURSIVE LexLeq(_, _)
LexLeq(a, b) ==
    IF Len(a) = 0 THEN TRUE
    ELSE IF a[1] # b[1] THEN a[1] < b[1]
    ELSE LexLeq(Tail(a), Tail(b))

StepTag(k) == [prefix |-> "STEP_", num |-> k]

\* one result tuple: AdmissionId first, result_step last
ResultRow(k, row) == [AdmissionId |-> row.AdmissionId, result_step |-> StepTag(k)]

\* the rows step k selects when its query is built with exclusion ids excl
StepCandidates(k, pd, excl) ==
    {row \in Store : StepFilter(k, pd, row) /\ row.AdmissionId \notin StepExcludes(k, excl)}

RECURSIVE OrderBy(_, _, _)
\* ORDER BY of step k: the orders of the rows in which the sort key never
\* decreases (the first row is one of the smallest key)
OrderBy(k, pd, rows) ==
    IF rows = {} THEN {<<>>}
    ELSE LET first == {r \in rows :
                          \A q \in rows : LexLeq(SortKey(k, pd, r), SortKey(k, pd, q))}
         IN UNION {{<<r>> \o rest : rest \in OrderBy(k, pd, rows \ {r})} : r \in first}

\* every answer the store may give to step k: the candidates in an order that
\* respects ORDER BY (ties in any order), cut by LIMIT
StepAnswers(k, pd, excl) ==
    {Take([i \in 1..Len(o) |-> ResultRow(k, o[i])], Limit) :
        o \in OrderBy(k, pd, StepCandidates(k, pd, excl))}

----------------------------------------------------------------------------
(* The end of search_similar_admissions                                    *)

\* get_step_number
GetStepNumber(result) ==
    IF result.result_step.prefix = "STEP_" THEN result.result_step.num ELSE UnknownStep

RECURSIVE SortByStep(_, _)
\* list.sort(key=get_step_number): stable
SortByStep(list, keys) ==
    IF keys = {} THEN <<>>
    ELSE LET k == CHOOSE x \in keys : \A y \in keys : x <= y
         IN SelectSeq(list, LAMBDA r : GetStepNumber(r) = k) \o SortByStep(list, keys \ {k})

\* variant: the sort is passed reverse=True
FinalResultsDescending(list, max_results) ==
    LET cut == PySlice(list, max_results)
        asc == SortByStep(cut, {GetStepNumber(cut[i]) : i \in 1..Len(cut)})
    IN [i \in 1..Len(asc) |-> asc[Len(asc) + 1 - i]]

\* final_results = self.results[:max_results]; final_results.sort(key=get_step_number)
FinalResults(list, max_results) ==
    LET cut == PySlice(list, max_results)
    IN SortByStep(cut, {GetStepNumber(cut[i]) : i \in 1..Len(cut)})

\* variant: the loop test written with >
EnoughResultsStrict(list, max_results) == Len(list) > max_results

\* the loop test: len(self.results) >= max_results
EnoughResults(list, max_results) == Len(list) >= max_results

----------------------------------------------------------------------------
(* Requests                                                                *)

\* the fields validate_unified_fields looks at
ValidatorFields == {"class_id", "class_name", "hospital_code", "hospital_name", "archetype",
                    "hospital_region", "birthdate", "gender", "icd10", "icd9",
                    "primary_doctor", "admission_type", "anesthesia_doctor",
                    "anesthesia_type", "payer_type", "payer_name"}

\* the fields _extract_structured_data copies
ExtractFields == {"class_id", "class_name", "hospital_code", "hospital_name", "archetype",
                  "hospital_region", "birthdate", "gender", "icd10", "icd9",
                  "primary_doctor", "admission_type", "admission_date", "discharge_date",
                  "anesthesia_doctor", "anesthesia_type", "surgery_nature", "payer_type",
                  "payer_name"}

\* a request: endpoint "unified" | "billing" (the two POST endpoints) or
\* "direct" (a caller of search_structured inside the process); query: a
\* non-empty free-text query is given; nulls: the fields sent as null
Request(endpoint, query, fields, nulls, n) ==
    [endpoint |-> endpoint, query |-> query, fields |-> fields, nulls |-> nulls,
     max_results |-> n]

Given(r, f) == f \notin r.nulls /\ ~IsEmptyValue(f, r.fields[f])

\* UnifiedSearchRequest: validate_unified_fields and the max_results bounds
ValidateUnifiedFields(r) == r.query \/ \E f \in ValidatorFields : Given(r, f)
MaxResultsOk(r) == r.max_results >= MaxResultsGe /\ r.max_results <= MaxResultsLe
RequestValid(r) == ValidateUnifiedFields(r) /\ MaxResultsOk(r)

\* _extract_structured_data: the non-empty structured fields
ExtractStructuredData(r) ==
    [f \in AllFields |-> IF f \in ExtractFields /\ Given(r, f) THEN r.fields[f]
                         ELSE EmptyValue(f)] @@ [nonstr |-> {}]

\* any(structured_data.values())
AnyCriteria(sd) == \E f \in AllFields : ~IsEmptyValue(f, sd[f])

\* the input_data the search is called with
SearchInput(r) == IF r.endpoint = "direct" THEN r.fields ELSE ExtractStructuredData(r)

CritFull ==
    [icd10 |-> <<CodeA>>, icd9 |-> <<CodeP>>, hospital_code |-> "SH", payer_name |-> "PY",
     payer_type |-> "PT", primary_doctor |-> "DR", admission_type |-> "IN", gender |-> "M",
     anesthesia_doctor |-> "AD", anesthesia_type |-> "GA", archetype |-> "AR",
     hospital_region |-> "RG", birthdate |-> DateText("date", 2000, 3, 10),
     admission_date |-> DateText("mysql", 2021, 1, 4),
     discharge_date |-> DateText("iso", 2021, 1, 7)] @@ NoCriteria

\* another doctor of the same specialty, no end date
CritSpecialty ==
    [primary_doctor |-> "DX", doctor_specialty |-> "SP", anesthesia_doctor |-> "",
     anesthesia_type |-> "", discharge_date |-> NoDate] @@ CritFull

\* only a procedure code and a blank hospital code; the dates are missing
CritProcedure == [icd9 |-> <<CodeP>>, hospital_code |-> Blank] @@ NoCriteria

\* only an event date
CritDateOnly == [admission_date |-> DateText("mysql", 2021, 1, 4)] @@ NoCriteria

\* a hospital code that is not a string
CritNonStr == [nonstr |-> {"hospital_code"}] @@ CritSpecialty

\* codes that no stored record carries alone
CritRare == [icd10 |-> <<CodeB>>, icd9 |-> <<CodeQ>>] @@ CritFull

\* two procedure codes and no diagnosis code, a hospital no record has
CritProcOnly ==
    [icd9 |-> <<CodeP, CodeQ>>, hospital_code |-> "ZZ",
     birthdate |-> DateText("date", 2000, 3, 10),
     admission_date |-> DateText("iso", 2021, 1, 4)] @@ NoCriteria

\* an end date that does not parse
CritBadEnd == [discharge_date |-> BadDate] @@ CritFull

\* the codes and the archetype of admission 5, a hospital no record has
CritElsewhere ==
    [icd10 |-> <<CodeA, CodeB>>, icd9 |-> <<CodeP, CodeQ>>, hospital_code |-> "ZZ",
     archetype |-> "A2"] @@ CritFull

EndpointCriteria == {CritFull, CritRare, CritProcedure, CritDateOnly, NoCriteria}
DirectCriteria ==
    {CritFull, CritSpecialty, CritNonStr, CritProcedure, CritBadEnd, CritElsewhere}

EmptyFieldsOf(c) == {f \in AllFields : IsEmptyValue(f, c[f])}

Requests ==
    {Request(e, FALSE, c, nl, n) :
        e \in {"unified", "billing"}, c \in EndpointCriteria, nl \in {{}}, n \in 0..MaxN}
    \cup {Request(e, q, NoCriteria, nl, 1) :
        e \in {"unified", "billing"}, q \in BOOLEAN, nl \in {{}, AllFields}}
    \cup {Request("direct", FALSE, c, {}, n) : c \in DirectCriteria, n \in 0..MaxN}

\* the requests of the procedure-only specification
ProcRequests ==
    {Request("direct", FALSE, c, {}, n) : c \in {CritProcOnly, CritProcedure}, n \in {1, MaxN}}

\* the requests of the concurrent specification
ConcRequests ==
    {Request("unified", FALSE, CritFull, {}, 2),
     Request("direct", FALSE, CritSpecialty, {}, 2)}

NoRequest == Request("none", FALSE, NoCriteria, {}, 0)
NoResponse == [success |-> FALSE, code |-> 0, results |-> <<>>, has_billing |-> <<>>]
NoProcessed == CalculateAgeAndLos(NoCriteria)
NoCall == [op |-> "none"]

Answer(ok, code, rows, billing) ==
    [success |-> ok, code |-> code, results |-> rows, has_billing |-> billing]

----------------------------------------------------------------------------
(* The driver loop of search_similar_admissions                            *)

\* a step raises before its query is dispatched (only _step_1 calls
\* _build_condition)
StepRaises(k, c) == k = 1 /\ Step1Raises(c)

\* variant: a failed step is tried again
RetryAfterFailure(k) == k

\* variant: a failed step ends the loop
AbortAfterFailure(k) == NumSteps + 1

\* except Exception: ... continue (and _execute_query returning []): the loop
\* goes on with the next step
NextIndexAfterFailure(k) == k + 1

\* variant: the loop index stays where it is after an answer
SameIndexAfterAnswer(k) == k

\* for i, step_func in enumerate(steps, 1): after the rows of step i the loop
\* goes on with step i + 1
NextIndexAfterAnswer(k) == k + 1

\* for result in step_results: self.found_admission_ids.add(result[0])
FoundIdsOf(rows) == {rows[i].AdmissionId : i \in 1..Len(rows)}

RECURSIVE NextDispatch(_, _, _, _)
\* from loop index i: the next step whose query is dispatched, 0 when the loop
\* ends (all steps done, or the break on enough results)
NextDispatch(i, list, max_results, c) ==
    IF i > NumSteps \/ EnoughResults(list, max_results) THEN 0
    ELSE IF StepRaises(i, c) THEN NextDispatch(NextIndexAfterFailure(i), list, max_results, c)
    ELSE i

\* the steps from index i that raise before the next dispatch
RaisedBefore(i, list, max_results, c) ==
    LET stop == NextDispatch(i, list, max_results, c)
        last == IF stop = 0 THEN NumSteps ELSE stop - 1
    IN IF EnoughResults(list, max_results) THEN {}
       ELSE {k \in i..last : StepRaises(k, c)}

\* format_results_for_api / the controller: what is answered when the search
\* of request r returns rows
EndpointAfterSearch(r) == IF r.endpoint = "direct" THEN "done" ELSE "enrich"

\* the loop runs on from index i in slot s with self.results = list:
\* either the query of the next step is dispatched, or the search returns
Continue(s, r, pd, i, list, ids, newFailed) ==
    LET k == NextDispatch(i, list, r.max_results, pd.crit)
        raised == RaisedBefore(i, list, r.max_results, pd.crit)
    IN /\ failed' = [failed EXCEPT ![s] = newFailed \cup raised]
       /\ IF k # 0
          THEN /\ pc' = [pc EXCEPT ![s] = "query"]
               /\ stage' = [stage EXCEPT ![s] = k]
               /\ inflight' = [inflight EXCEPT ![s] = ids]
               /\ queries' = [queries EXCEPT ![s] = (IF i = 1 THEN {} ELSE @) \cup {k}]
               /\ outcome' = [outcome EXCEPT ![s] = <<>>]
               /\ response' = [response EXCEPT ![s] = NoResponse]
          ELSE /\ pc' = [pc EXCEPT ![s] = EndpointAfterSearch(r)]
               /\ stage' = [stage EXCEPT ![s] = 0]
               /\ inflight' = [inflight EXCEPT ![s] = {}]
               /\ queries' = [queries EXCEPT ![s] = IF i = 1 THEN {} ELSE @]
               /\ outcome' = [outcome EXCEPT ![s] = FinalResults(list, r.max_results)]
               /\ response' = [response EXCEPT ![s] =
                     IF r.endpoint = "direct"
                     THEN Answer(TRUE, 200, FinalResults(list, r.max_results), <<>>)
                     ELSE NoResponse]

----------------------------------------------------------------------------
(* Actions                                                                 *)

Init ==
    /\ svc = "starting"
    /\ client = "none"
    /\ found_admission_ids = {}
    /\ results = <<>>
    /\ pc = [s \in Slots |-> "idle"]
    /\ req = [s \in Slots |-> NoRequest]
    /\ processed_data = [s \in Slots |-> NoProcessed]
    /\ stage = [s \in Slots |-> 0]
    /\ inflight = [s \in Slots |-> {}]
    /\ outcome = [s \in Slots |-> <<>>]
    /\ response = [s \in Slots |-> NoResponse]
    /\ own = [s \in Slots |-> <<>>]
    /\ queries = [s \in Slots |-> {}]
    /\ failed = [s \in Slots |-> {}]
    /\ call = NoCall

\* Kernel.lifespan: medical_search_service.initialize() then
\* sales_service.initialize(); health_check never raises, so only get_client
\* and the sales service can stop the start-up
InitializeOutcome(getClientOk, healthOk, salesOk) ==
    [svc |-> IF getClientOk /\ salesOk THEN "serving" ELSE "failed",
     client |-> IF ~getClientOk THEN "none" ELSE IF healthOk THEN "ok" ELSE "broken"]

Startup ==
    /\ svc = "starting"
    /\ \E getClientOk, healthOk, salesOk \in BOOLEAN :
          /\ getClientOk \/ ~healthOk
          /\ svc' = InitializeOutcome(getClientOk, healthOk, salesOk).svc
          /\ client' = InitializeOutcome(getClientOk, healthOk, salesOk).client
    /\ UNCHANGED <<found_admission_ids, results, pc, req, processed_data, stage,
                   inflight, outcome, response, own, queries, failed, call>>

\* variant: only the free-text query is refused
RejectedOnlyQuery(r) == r.endpoint # "direct" /\ r.query

\* the controller rejects the request before the search:
\* a request that fails validation, a free-text query, or no criteria
Rejected(r) ==
    r.endpoint # "direct" /\ (~RequestValid(r) \/ r.query \/ ~AnyCriteria(ExtractStructuredData(r)))

RejectionOf(r) == Answer(FALSE, 400, <<>>, <<>>)

\* search_similar_admissions resets the fields of the singleton
ResetFound == {}

\* variant: self.results is not reset
KeepResults == results

ResetResults == <<>>

\* a request arrives in slot s: validation, the controller's checks, and for
\* an accepted request the search up to its first dispatched query; the
\* endpoints are served once the start-up succeeded, a direct call of the
\* module-level service object needs no start-up
Arrive(s, r) ==
    /\ svc = "serving" \/ r.endpoint = "direct"
    /\ pc[s] \in {"idle", "done"}
    /\ req' = [req EXCEPT ![s] = r]
    /\ own' = [own EXCEPT ![s] = <<>>]
    /\ IF Rejected(r)
       THEN /\ pc' = [pc EXCEPT ![s] = "done"]
            /\ response' = [response EXCEPT ![s] = RejectionOf(r)]
            /\ processed_data' = [processed_data EXCEPT ![s] = NoProcessed]
            /\ stage' = [stage EXCEPT ![s] = 0]
            /\ inflight' = [inflight EXCEPT ![s] = {}]
            /\ outcome' = [outcome EXCEPT ![s] = <<>>]
            /\ queries' = [queries EXCEPT ![s] = {}]
            /\ failed' = [failed EXCEPT ![s] = {}]
            /\ UNCHANGED <<found_admission_ids, results>>
       ELSE /\ found_admission_ids' = ResetFound
            /\ results' = ResetResults
            /\ processed_data' = [processed_data EXCEPT ![s] = CalculateAgeAndLos(SearchInput(r))]
            /\ Continue(s, r, CalculateAgeAndLos(SearchInput(r)), 1,
                        ResetResults, ResetFound, {})
    /\ UNCHANGED <<svc, client, call>>

\* the query of the dispatched step returns rows: they are appended to
\* self.results, their ids added to self.found_admission_ids, the loop goes on
QueryAnswer(s) ==
    /\ pc[s] = "query"
    /\ client = "ok"
    /\ \E rows \in StepAnswers(stage[s], processed_data[s], inflight[s]) :
          /\ results' = results \o rows
          /\ found_admission_ids' = found_admission_ids \cup FoundIdsOf(rows)
          /\ own' = [own EXCEPT ![s] = @ \o rows]
          /\ Continue(s, req[s], processed_data[s], NextIndexAfterAnswer(stage[s]),
                      results \o rows,
                      found_admission_ids \cup FoundIdsOf(rows), failed[s])
    /\ UNCHANGED <<svc, client, req, processed_data, call>>

\* the query fails (always when self.client is None or unusable):
\* _execute_query logs and returns []
QueryFailWithin(s, budget) ==
    /\ pc[s] = "query"
    /\ client # "ok" \/ Cardinality(failed[s] \cap queries[s]) < budget
    /\ Continue(s, req[s], processed_data[s], NextIndexAfterFailure(stage[s]), results,
                found_admission_ids, failed[s] \cup {stage[s]})
    /\ UNCHANGED <<svc, client, found_admission_ids, results, req, processed_data, own, call>>

\* the endpoint's work after the search: the billing lookups (each may fail)
\* and the response
EndpointResponse(r, rows, billing) ==
    IF r.endpoint = "unified" THEN Answer(TRUE, 200, rows, billing)
    ELSE IF Len(rows) = 0 THEN Answer(FALSE, 404, <<>>, <<>>)
    ELSE Answer(TRUE, 200, rows, billing)

Respond(s) ==
    /\ pc[s] = "enrich"
    /\ \E billing \in [1..Len(outcome[s]) -> BOOLEAN] :
          response' = [response EXCEPT ![s] = EndpointResponse(req[s], outcome[s], billing)]
    /\ pc' = [pc EXCEPT ![s] = "done"]
    /\ UNCHANGED <<svc, client, found_admission_ids, results, req, processed_data, stage,
                   inflight, outcome, own, queries, failed, call>>

\* at most MaxFailures queries of one search fail
QueryFail(s) == QueryFailWithin(s, MaxFailures)

\* one failure more
QueryFailMore(s) == QueryFailWithin(s, MaxFailures + 1)

InFlight(s) == pc[s] \in {"query", "enrich"}

\* one request at a time
ArriveAlone ==
    \E r \in Requests : Arrive(1, r) /\ \A t \in Slots : ~InFlight(t)

\* procedure-only requests, one at a time
ArriveProc ==
    \E r \in ProcRequests : Arrive(1, r) /\ \A t \in Slots : ~InFlight(t)

\* requests overlap
ArriveConcurrent == \E s \in Slots : \E r \in ConcRequests : Arrive(s, r)

Next ==
    \/ Startup
    \/ ArriveAlone
    \/ \E s \in Slots : QueryAnswer(s)
    \/ \E s \in Slots : QueryFail(s)
    \/ \E s \in Slots : Respond(s)

Spec == Init /\ [][Next]_vars

NextConc ==
    \/ Startup
    \/ ArriveConcurrent
    \/ \E s \in Slots : QueryAnswer(s)
    \/ \E s \in Slots : Respond(s)

SpecConc == Init /\ [][NextConc]_vars

NextProc ==
    \/ Startup
    \/ ArriveProc
    \/ \E s \in Slots : QueryAnswer(s)
    \/ \E s \in Slots : QueryFailMore(s)

SpecProc == Init /\ [][NextProc]_vars

\* the searches whose dispatched queries all come back: _execute_query awaits
\* the query, which returns rows or raises (the step then counts as failed)
QueryComesBack == WF_vars(\E s \in Slots : QueryAnswer(s) \/ QueryFailMore(s))

SpecLive == Init /\ [][NextProc]_vars /\ QueryComesBack

----------------------------------------------------------------------------
(* The functions of the service applied on their own: each action draws    *)
(* the arguments from a bounded set and records the application in call.   *)

\* the code lists of at most MaxCodes codes, over two codes
RECURSIVE CodeListsOf(_)
CodeListsOf(n) ==
    IF n = 0 THEN {<<>>}
    ELSE LET shorter == CodeListsOf(n - 1)
         IN shorter \cup {<<x>> \o l : x \in {CodeA, CodeB}, l \in {m \in shorter : Len(m) = n - 1}}

CodeLists == CodeListsOf(MaxCodes)

\* stored code fields: empty, one code, two codes in both orders joined with
\* "; ", two codes joined with ";" alone, a longer code, three codes
StoredFields ==
    {<<>>, CodeA, CodeB, JoinWith(<<CodeA, CodeB>>, Sep), JoinWith(<<CodeB, CodeA>>, Sep),
     JoinWith(<<CodeA, CodeB>>, <<";">>), CodeA \o <<"0">>,
     JoinWith(<<CodeA, CodeB, CodeP>>, Sep)}

CodeRow(dx, px) == [DiseaseClassification |-> dx, ProcedureClassification |-> px]
CodeCriteria(l10, l9) == [icd10 |-> l10, icd9 |-> l9]

\* _calculate_icd_scores(input_data, step_type), its four results evaluated
\* on one stored record; one family is varied at a time
CalculateIcdScores ==
    \E type \in StepTypes, l10, l9 \in CodeLists, dx, px \in StoredFields :
        /\ (l10 = <<CodeA>> /\ dx = CodeA) \/ (l9 = <<CodeA>> /\ px = CodeA)
        /\ call' = [op |-> "icd_scores", step_type |-> type,
                    icd10 |-> l10, icd9 |-> l9, dx |-> dx, px |-> px,
                    icd10_filter |-> Icd10Filter(type, CodeCriteria(l10, l9), CodeRow(dx, px)),
                    icd9_filter |-> Icd9Filter(type, CodeCriteria(l10, l9), CodeRow(dx, px)),
                    icd10_score |-> Icd10Score(type, CodeCriteria(l10, l9), CodeRow(dx, px)),
                    icd9_score |-> Icd9Score(type, CodeCriteria(l10, l9), CodeRow(dx, px))]
        /\ UNCHANGED <<svc, client, found_admission_ids, results, pc, req, processed_data,
                       stage, inflight, outcome, response, own, queries, failed>>

\* the score columns of the query of a step that selects some
SelectScoreColumns ==
    \E k \in {j \in Steps : EmitsIcd9(j)}, l10, l9 \in CodeLists, dx, px \in StoredFields :
        /\ (l10 = <<CodeA>> /\ dx = CodeA) \/ (l9 = <<CodeA>> /\ px = CodeA)
        /\ call' = [op |-> "score_columns", step |-> k,
                    icd10 |-> l10, icd9 |-> l9, dx |-> dx, px |-> px,
                    columns |->
                        {<<"icd9_match_count",
                           Icd9MatchCount(k, CodeCriteria(l10, l9), CodeRow(dx, px))>>}
                        \cup (IF EmitsIcd10(k)
                              THEN {<<"icd10_match_count",
                                      Icd10MatchCount(k, CodeCriteria(l10, l9), CodeRow(dx, px))>>}
                              ELSE {})]
        /\ UNCHANGED <<svc, client, found_admission_ids, results, pc, req, processed_data,
                       stage, inflight, outcome, response, own, queries, failed>>

\* the date texts given to the normalizer
BirthTexts ==
    {DateText("date", 2000, 3, 10), DateText("date", 2000, 2, 29), DateText("date", 2001, 12, 31),
     DateText("iso", 2000, 3, 10), BadDate, NoDate}

EventTexts ==
    {DateTimeText(f, d[1], d[2], d[3], h) :
        f \in {"iso", "mysql"},
        d \in {<<2020, 3, 9>>, <<2020, 3, 10>>, <<2020, 2, 28>>, <<2021, 1, 1>>, <<2001, 12, 30>>},
        h \in {0, 23}}
    \cup {DateText("date", 2020, 3, 9), DateText("date", 2020, 3, 10),
          DateText("date", 2021, 1, 1), BadDate, NoDate}

EndTexts ==
    {DateTimeText(f, d[1], d[2], d[3], h) :
        f \in {"iso", "mysql"},
        d \in {<<2020, 3, 10>>, <<2021, 1, 1>>, <<2021, 1, 4>>, <<2021, 3, 1>>},
        h \in {0, 23}}
    \cup {DateText("date", 2021, 1, 4), BadDate, NoDate}

DateCriteria(birth, event, end) ==
    [birthdate |-> birth, admission_date |-> event, discharge_date |-> end,
     hospital_code |-> "SH"] @@ NoCriteria

\* _calculate_age_and_los(input_data), and what step 1 and the sorting steps
\* make of its calculated_los for the stored records
Normalize ==
    \E birth \in BirthTexts, event \in EventTexts, end \in EndTexts :
        LET c == DateCriteria(birth, event, end)
            pd == CalculateAgeAndLos(c)
        IN /\ call' = [op |-> "normalize", input |-> c, raised |-> NormalizeRaises(c),
                       output |-> pd,
                       los_condition |->
                           [id \in StoreIds |->
                               LET row == CHOOSE r \in Store : r.AdmissionId = id
                               IN BuildLosCondition(row.LengthOfStay, pd.calculated_los)],
                       los_diff |->
                           [id \in StoreIds |->
                               LET row == CHOOSE r \in Store : r.AdmissionId = id
                               IN LosDiff(pd, row)]]
           /\ UNCHANGED <<svc, client, found_admission_ids, results, pc, req, processed_data,
                          stage, inflight, outcome, response, own, queries, failed>>

\* a column of a result tuple
Column(name, value) == [name |-> name, value |-> value]

\* the columns the query of step k appends to the columns of the table, in
\* the order of its SELECT list
ExtraColumns(k, pd, row) ==
    LET c == pd.crit
        scores == (IF EmitsIcd10(k)
                   THEN <<Column("icd10_match_count", Icd10MatchCount(k, c, row))>> ELSE <<>>)
                  \o (IF EmitsIcd9(k)
                      THEN <<Column("icd9_match_count", Icd9MatchCount(k, c, row))>> ELSE <<>>)
        diffs == <<Column("age_diff", AgeDiff(pd, row)), Column("date_diff", DateDiff(pd, row))>>
        los == <<Column("los_diff", LosDiff(pd, row))>>
        gender == <<Column("gender_priority", Priority(row.Sex, c.gender))>>
        adm == <<Column("admission_type_priority",
                        Priority(row.AdmissionTypeName, c.admission_type))>>
        doctor == <<Column("doctor_priority", Priority(row.PrimaryDoctor, c.primary_doctor))>>
        step == <<Column("result_step", StepTag(k))>>
    IN CASE k <= 4 -> scores \o diffs \o step
         [] k = 5 -> diffs \o los \o gender \o step
         [] k \in 6..8 -> diffs \o los \o adm \o gender \o step
         [] k \in {9, 10, 12, 13} -> diffs \o los \o doctor \o adm \o gender \o step
         [] k = 11 -> diffs \o los
                      \o <<Column("payer_name_priority", Priority(row.PayerName, c.payer_name)),
                           Column("payer_type_priority", Priority(row.PayerType, c.payer_type))>>
                      \o doctor \o adm \o gender \o step
         [] k = 14 -> diffs \o los
                      \o <<Column("hospital_priority",
                                  Priority(row.OrganizationCode, c.hospital_code)),
                           Column("region_priority", Priority(row.Region, c.hospital_region)),
                           Column("archetype_priority", Priority(row.Archetype, c.archetype))>>
                      \o doctor \o adm \o gender \o step
         [] OTHER -> scores \o diffs \o los \o step

\* format_results_for_api: the calculated fields of the document are read
\* from the last three columns of the tuple
FormatCalculatedFields(extra) ==
    IF Len(extra) >= 3
    THEN [given |-> TRUE, age_diff |-> extra[Len(extra) - 2].value,
          date_diff |-> extra[Len(extra) - 1].value, result_step |-> extra[Len(extra)].value]
    ELSE [given |-> FALSE, age_diff |-> 0, date_diff |-> 0, result_step |-> StepTag(0)]

\* format_results_for_api on a row of the query of a step
FormatResultsForApi ==
    \E k \in Steps, c \in {CritFull, CritSpecialty, CritRare}, row \in Store :
        /\ call' = [op |-> "format", step |-> k, criteria |-> c, row |-> row.AdmissionId,
                    columns |-> ExtraColumns(k, CalculateAgeAndLos(c), row),
                    document |->
                        FormatCalculatedFields(ExtraColumns(k, CalculateAgeAndLos(c), row))]
        /\ UNCHANGED <<svc, client, found_admission_ids, results, pc, req, processed_data,
                       stage, inflight, outcome, response, own, queries, failed>>

\* the WHERE clauses of steps 14-17 for criteria with the given code lists,
\* on every stored record with its two code fields replaced
SelectCodeOnlyFilters ==
    \E l10, l9 \in CodeLists, dx, px \in StoredFields :
        LET pd == CalculateAgeAndLos([CritFull EXCEPT !.icd10 = l10, !.icd9 = l9])
        IN /\ call' = [op |-> "code_filters", icd10 |-> l10, icd9 |-> l9, dx |-> dx, px |-> px,
                       passes |->
                           [id \in StoreIds |->
                               [k \in 14..17 |->
                                   StepFilter(k, pd,
                                       [StoreRow(id) EXCEPT !.DiseaseClassification = dx,
                                                            !.ProcedureClassification = px])]]]
           /\ UNCHANGED <<svc, client, found_admission_ids, results, pc, req, processed_data,
                          stage, inflight, outcome, response, own, queries, failed>>

\* one application per behaviour
NextFn ==
    \/ call = NoCall /\ CalculateIcdScores
    \/ call = NoCall /\ SelectScoreColumns
    \/ call = NoCall /\ Normalize
    \/ call = NoCall /\ FormatResultsForApi
    \/ call = NoCall /\ SelectCodeOnlyFilters

SpecFn == Init /\ [][NextFn]_vars

----------------------------------------------------------------------------
(* The endpoints after the search: billing lookup and price recalculation, *)
(* applied to a search result and to the collaborators' answers.           *)

\* a line item of sales_item_filtered; sales_item_id 0 stands for ''
SalesItem(admission, id, amount) ==
    [admission_id |-> admission, sales_item_id |-> id, item_net_amount |-> amount]

\* the rows of sales_item_filtered of an admission, ORDER BY ItemNetAmount DESC
SalesItemsOf(admission) ==
    CASE admission = 1 -> <<SalesItem(1, 101, 90), SalesItem(1, 102, 40)>>
      [] admission = 2 -> <<SalesItem(2, 201, 30)>>
      [] admission = 3 -> <<SalesItem(3, 101, 70), SalesItem(3, 0, 20)>>
      [] OTHER -> <<>>

RECURSIVE TotalAmount(_)
TotalAmount(items) ==
    IF items = <<>> THEN 0 ELSE items[1].item_net_amount + TotalAmount(Tail(items))

\* get_sales_for_admission returned None
NoSummary == [found |-> FALSE, total_items |-> 0, total_amount |-> 0, items |-> <<>>]

\* what the sales table does on a lookup: it answers with its rows, or the
\* query raises
LookupOutcomes == {"rows", "raises"}

\* SalesService.get_sales_for_admission: None for an invalid id, for no rows
\* and for any error
GetSalesForAdmission(admission, lookup) ==
    IF admission = 0 \/ lookup = "raises" \/ SalesItemsOf(admission) = <<>> THEN NoSummary
    ELSE [found |-> TRUE, total_items |-> Len(SalesItemsOf(admission)),
          total_amount |-> TotalAmount(SalesItemsOf(admission)),
          items |-> SalesItemsOf(admission)]

\* clean_admission: fields of the document, billing_data (NoSummary for None),
\* has_billing and the step tag
CleanAdmission(doc, summary) ==
    [admission_id |-> doc.AdmissionId,
     doctor |-> StoreRow(doc.AdmissionId).PrimaryDoctor,
     length_of_stay |-> StoreRow(doc.AdmissionId).LengthOfStay,
     billing_data |-> summary,
     has_billing |-> summary.found,
     found_in_step |-> doc.result_step]

\* variant: an admission without billing data is left out
EnhancedResultsSkipFailed(rows, lookups) ==
    SelectSeq([i \in 1..Len(rows) |->
                  CleanAdmission(rows[i], GetSalesForAdmission(rows[i].AdmissionId, lookups[i]))],
              LAMBDA a : a.has_billing)

\* the loop of unified_search_with_billing over the search result
EnhancedResults(rows, lookups) ==
    [i \in 1..Len(rows) |->
        CleanAdmission(rows[i], GetSalesForAdmission(rows[i].AdmissionId, lookups[i]))]

\* an item of the pricing engine's answer; priced: one of its price fields
\* carries a non-zero value
ApiItem(id, priced, price) == [sales_item_id |-> id, priced |-> priced, price |-> price]

ApiItems == {ApiItem(id, p, IF p THEN 55 ELSE 0) : id \in {101, 999}, p \in BOOLEAN}

RECURSIVE ApiAnswersOf(_)
ApiAnswersOf(n) ==
    IF n = 0 THEN {<<>>}
    ELSE LET shorter == ApiAnswersOf(n - 1)
         IN shorter \cup {<<x>> \o l : x \in ApiItems, l \in {m \in shorter : Len(m) = n - 1}}

\* what the pricing engine does: the call raises, times out, answers with a
\* status other than 200, or answers 200 with a list of items
PricingOutcomes ==
    {[kind |-> k, items |-> <<>>] : k \in {"error", "timeout", "status"}}
    \cup {[kind |-> "ok", items |-> a] : a \in ApiAnswersOf(MaxItems)}

PricingFailed == [success |-> FALSE, sales_items |-> <<>>]

\* _get_real_time_pricing: no call without an item that has an id; every
\* failure and an empty answer give success False; calculated_price is the
\* first truthy price field, 0 when there is none
GetRealTimePricing(historical, pricing) ==
    IF SelectSeq(historical, LAMBDA it : it.sales_item_id # 0) = <<>> THEN PricingFailed
    ELSE IF pricing.kind # "ok" \/ pricing.items = <<>> THEN PricingFailed
    ELSE [success |-> TRUE,
          sales_items |->
              [i \in 1..Len(pricing.items) |->
                  [sales_item_id |-> pricing.items[i].sales_item_id,
                   calculated_price |-> IF pricing.items[i].priced THEN pricing.items[i].price
                                        ELSE 0]]]

\* realtime_price_map: the ids it holds, and the price of an id (a later item
\* of the answer replaces an earlier one)
PricedIds(sales_items) ==
    {sales_items[i].sales_item_id : i \in 1..Len(sales_items)} \ {0}

RealtimePrice(sales_items, id) ==
    LET last == CHOOSE i \in 1..Len(sales_items) :
                    /\ sales_items[i].sales_item_id = id
                    /\ \A j \in (i + 1)..Len(sales_items) : sales_items[j].sales_item_id # id
    IN sales_items[last].calculated_price

\* billing_items of billing_analysis_search: the historical items with the
\* recalculated prices, or the historical items as they are
BillingItems(historical, rt) ==
    IF rt.success /\ rt.sales_items # <<>>
    THEN [i \in 1..Len(historical) |->
            [historical[i] EXCEPT !.item_net_amount =
                IF historical[i].sales_item_id \in PricedIds(rt.sales_items)
                THEN RealtimePrice(rt.sales_items, historical[i].sales_item_id)
                ELSE @]]
    ELSE historical

\* the data of the answer of billing_analysis_search to a search result
BillingAnalysis(rows, lookup, pricing) ==
    IF rows = <<>>
    THEN [success |-> FALSE, code |-> 404, billing_items |-> <<>>, billing_references |-> <<>>]
    ELSE LET summary == GetSalesForAdmission(rows[1].AdmissionId, lookup)
         IN [success |-> TRUE, code |-> 200,
             billing_items |->
                 IF summary.found /\ summary.items # <<>>
                 THEN BillingItems(summary.items, GetRealTimePricing(summary.items, pricing))
                 ELSE <<>>,
             billing_references |-> [i \in 1..Len(rows) |-> rows[i].AdmissionId]]

\* the step a record at position i of a search result was found in
PositionStep(i) == IF i = 1 THEN 1 ELSE IF i = 2 THEN 5 ELSE 13 + i

\* search results: up to MaxRows different admissions, steps ascending
SearchResults ==
    UNION {{[i \in 1..n |-> ResultRow(PositionStep(i), StoreRow(ids[i]))] :
               ids \in {f \in [1..n -> StoreIds] : \A i, j \in 1..n : i # j => f[i] # f[j]}} :
           n \in 0..MaxRows}

\* unified_search_with_billing from the search result on
UnifiedSearchWithBilling ==
    \E rows \in SearchResults :
        \E lookups \in [1..Len(rows) -> LookupOutcomes] :
            /\ call' = [op |-> "unified", rows |-> rows, lookups |-> lookups,
                        response |-> [success |-> TRUE, code |-> 200,
                                      results |-> EnhancedResults(rows, lookups)]]
            /\ UNCHANGED <<svc, client, found_admission_ids, results, pc, req, processed_data,
                           stage, inflight, outcome, response, own, queries, failed>>

\* billing_analysis_search from the search result on
BillingAnalysisSearch ==
    \E rows \in SearchResults, lookup \in LookupOutcomes, pricing \in PricingOutcomes :
        /\ call' = [op |-> "billing", rows |-> rows, lookup |-> lookup, pricing |-> pricing,
                    response |-> BillingAnalysis(rows, lookup, pricing)]
        /\ UNCHANGED <<svc, client, found_admission_ids, results, pc, req, processed_data,
                       stage, inflight, outcome, response, own, queries, failed>>

NextEnrich ==
    \/ call = NoCall /\ UnifiedSearchWithBilling
    \/ call = NoCall /\ BillingAnalysisSearch

SpecEnrich == Init /\ [][NextEnrich]_vars

----------------------------------------------------------------------------
(* Properties                                                              *)

IdsOf(list) == {list[i].AdmissionId : i \in 1..Len(list)}

\* the search of slot s has returned its outcome
Searched(s) == pc[s] \in {"enrich", "done"} /\ req[s] # NoRequest /\ ~Rejected(req[s])

\* no criteria field of request r carries a value
AllEmpty(r) == \A f \in AllFields : ~Given(r, f)

\* C1: the outcome of a search that runs alone over a store with one row per
\* admission identifier never contains the same identifier twice
C1_NoDuplicateIds ==
    \A s \in Slots : Searched(s) =>
        \A i, j \in 1..Len(outcome[s]) :
            i # j => outcome[s][i].AdmissionId # outcome[s][j].AdmissionId

\* a search whose outcome holds four records captured by three different
\* steps
C1_Witness ==
    /\ Searched(1)
    /\ Cardinality({GetStepNumber(outcome[1][i]) : i \in 1..Len(outcome[1])}) >= 3
    /\ Len(outcome[1]) >= 4

\* C2: the match-set and exclusion-set a search works with are its own: while a
\* search waits for a query the service holds exactly the matches that search
\* accumulated, and its outcome is built from those matches only
C2_SearchesIsolated ==
    \A s \in Slots :
        /\ pc[s] = "query" => results = own[s] /\ found_admission_ids = IdsOf(own[s])
        /\ Searched(s) => outcome[s] = FinalResults(own[s], req[s].max_results)

\* C3: a step query is in flight only while the steps before it accumulated
\* fewer than max_results matches
C3_NoQueryOnceEnough ==
    \A s \in Slots : pc[s] = "query" => Len(own[s]) < req[s].max_results

\* a search that stopped early: enough matches, later steps never queried
C3_Witness ==
    /\ Searched(1)
    /\ req[1].max_results >= 2
    /\ Len(own[1]) >= req[1].max_results
    /\ queries[1] # {}
    /\ \A k \in Steps : k \in queries[1] \cup failed[1] => k <= 5

\* C4: the outcome is in ascending step order, and records of one step keep the
\* order in which that step's query returned them
C4_OutcomeOrdered ==
    \A s \in Slots : Searched(s) =>
        \A i, j \in 1..Len(outcome[s]) : i < j =>
            /\ GetStepNumber(outcome[s][i]) <= GetStepNumber(outcome[s][j])
            /\ GetStepNumber(outcome[s][i]) = GetStepNumber(outcome[s][j]) =>
                  \E a, b \in 1..Len(own[s]) :
                      a < b /\ own[s][a] = outcome[s][i] /\ own[s][b] = outcome[s][j]

\* an outcome with two records of one step after a record of an earlier step
C4_Witness ==
    /\ Searched(1)
    /\ \E i, j, k \in 1..Len(outcome[1]) :
          /\ i < j /\ j < k
          /\ GetStepNumber(outcome[1][i]) < GetStepNumber(outcome[1][j])
          /\ GetStepNumber(outcome[1][j]) = GetStepNumber(outcome[1][k])

\* C5: a step that fails (its query fails, or the step raises) contributes no
\* match and does not abort the cascade: no later step is skipped because of
\* it, and the outcome is made of the matches of the steps that succeeded,
\* each tagged with its own step
C5_FailureDoesNotAbort ==
    \A s \in Slots :
        /\ pc[s] = "query" => \A k \in 1..(stage[s] - 1) : k \in queries[s] \cup failed[s]
        /\ Searched(s) =>
              /\ Len(own[s]) < req[s].max_results => Steps \subseteq queries[s] \cup failed[s]
              /\ \A i \in 1..Len(own[s]) :
                    GetStepNumber(own[s][i]) \in queries[s] \ failed[s]
              /\ outcome[s] = Take(own[s], req[s].max_results)

\* step 1 raised, the query of step 6 failed, step 7 returned three rows and no
\* other step returned any: the outcome is those three rows, tagged step 7
C5_Witness ==
    /\ Searched(1)
    /\ failed[1] = {1, 6}
    /\ 6 \in queries[1] /\ 1 \notin queries[1]
    /\ Len(own[1]) = 3
    /\ \A i \in 1..3 : own[1][i].result_step = StepTag(7)
    /\ outcome[1] = own[1]

\* C6: every step from the second on is queried with an exclusion set that
\* holds every identifier the earlier steps captured, so no captured record is
\* a candidate of a later step
C6_ExclusionComplete ==
    \A s \in Slots : pc[s] = "query" /\ stage[s] >= 2 =>
        /\ IdsOf(own[s]) \subseteq StepExcludes(stage[s], inflight[s])
        /\ \A row \in StepCandidates(stage[s], processed_data[s], inflight[s]) :
              row.AdmissionId \notin IdsOf(own[s])

\* a step queried while earlier steps have captured records that it would select
C6_Witness ==
    /\ pc[1] = "query"
    /\ stage[1] >= 2
    /\ \E row \in Store : /\ row.AdmissionId \in IdsOf(own[1])
                          /\ StepFilter(stage[1], processed_data[1], row)

\* C7: the outcome holds min(max_results, accumulated) records; when all the
\* steps together found fewer than max_results, all of them are returned
C7_OutcomeSize ==
    \A s \in Slots : Searched(s) =>
        /\ Len(outcome[s]) = Min(req[s].max_results, Len(own[s]))
        /\ Len(own[s]) < req[s].max_results => Range(outcome[s]) = Range(own[s])

\* a search that accumulated more than max_results, cut to max_results
C7_Witness ==
    /\ Searched(1)
    /\ Len(own[1]) > req[1].max_results
    /\ Len(outcome[1]) = req[1].max_results
    /\ req[1].max_results >= 2

\* C8: a request whose criteria fields are all empty is refused on both
\* endpoints before the cascade: an error response, and no step query
C8_EmptyRequestRejected ==
    \A s \in Slots :
        req[s].endpoint \in {"unified", "billing"} /\ AllEmpty(req[s]) =>
            /\ pc[s] = "done"
            /\ ~response[s].success
            /\ response[s].results = <<>>
            /\ queries[s] = {}
            /\ own[s] = <<>>

\* such a request, carrying a free-text query, refused on the billing endpoint
C8_Witness ==
    /\ req[1].endpoint = "billing"
    /\ req[1].query
    /\ AllEmpty(req[1])
    /\ pc[1] = "done"
    /\ response[1] = RejectionOf(req[1])

\* C9: with the store initialised, a request that carries a non-empty
\* criterion and a valid max_results, and no free-text query, is answered with
\* success on both endpoints, whatever the number of matches
C9_OnlyInvalidOrUnavailableFail ==
    \A s \in Slots :
        /\ pc[s] = "done"
        /\ req[s].endpoint \in {"unified", "billing"}
        /\ client = "ok"
        /\ ~AllEmpty(req[s]) /\ ~req[s].query /\ MaxResultsOk(req[s])
        => response[s].success

\* C10: the service serves only with a store connection that passed its test,
\* and a search over a store that is not usable is never answered with success
C10_StoreUnavailableIsFatal ==
    /\ svc = "serving" => client = "ok"
    /\ \A s \in Slots : pc[s] = "done" /\ client # "ok" => ~response[s].success

\* the call applied _calculate_icd_scores / selected the score columns
IcdCall == call.op = "icd_scores"
ColumnsCall == call.op = "score_columns"

\* needle is a substring of hay
IsSubstring(hay, needle) ==
    \E a \in 1..(Len(hay) + 1) : \E b \in 0..Len(hay) : SubSeq(hay, a, b) = needle

\* where the i-th code starts in a text made of the codes with sep between them
RECURSIVE OffsetOf(_, _, _)
OffsetOf(codes, sep, i) ==
    IF i = 1 THEN 0 ELSE OffsetOf(codes, sep, i - 1) + Len(codes[i - 1]) + Len(sep)

\* text is the codes in their order, with sep between neighbours
JoinedAs(text, codes, sep) ==
    /\ Len(text) = OffsetOf(codes, sep, Len(codes)) + Len(codes[Len(codes)])
    /\ \A i \in 1..Len(codes) :
          SubSeq(text, OffsetOf(codes, sep, i) + 1, OffsetOf(codes, sep, i) + Len(codes[i]))
              = codes[i]
    /\ \A i \in 2..Len(codes) :
          SubSeq(text, OffsetOf(codes, sep, i) - Len(sep) + 1, OffsetOf(codes, sep, i)) = sep

\* the step types in which a family is matched exactly / partially
Icd10Exact == {"exact"}
Icd9Exact == {"exact", "mixed", "icd9_only_exact"}
Icd10Partial == {"partial", "mixed"}
Icd9Partial == {"partial", "icd9_only_partial"}

\* C11 (as amended): in exact mode, when codes of a family are requested, a
\* record passes the family's filter if and only if its stored code field is
\* the requested codes in the order given, joined with a semicolon followed
\* by a space; the same codes in another order do not pass
C11_ExactFilterOrdered ==
    IcdCall =>
        /\ call.step_type \in Icd10Exact /\ call.icd10 # <<>> =>
              (call.icd10_filter <=> JoinedAs(call.dx, call.icd10, <<";", " ">>))
        /\ call.step_type \in Icd9Exact /\ call.icd9 # <<>> =>
              (call.icd9_filter <=> JoinedAs(call.px, call.icd9, <<";", " ">>))

\* C11 (as stated): the stored field equals the requested codes joined with
\* a semicolon alone
C11_ExactFilterSemicolon ==
    IcdCall =>
        /\ call.step_type \in Icd10Exact /\ call.icd10 # <<>> =>
              (call.icd10_filter <=> JoinedAs(call.dx, call.icd10, <<";">>))
        /\ call.step_type \in Icd9Exact /\ call.icd9 # <<>> =>
              (call.icd9_filter <=> JoinedAs(call.px, call.icd9, <<";">>))

\* two codes requested as B, A against a record that stores A, B: rejected
C11_Witness ==
    /\ IcdCall
    /\ call.step_type = "exact"
    /\ call.icd10 = <<CodeB, CodeA>>
    /\ JoinedAs(call.dx, <<CodeA, CodeB>>, <<";", " ">>)
    /\ ~call.icd10_filter

\* C12: in partial mode a record passes a family's filter if and only if at
\* least one requested code of the family is a substring of its stored code
\* field; with no requested code of the family every record passes
C12_PartialFilterAnyCode ==
    IcdCall =>
        /\ call.step_type \in Icd10Partial =>
              (call.icd10_filter <=>
                  (call.icd10 = <<>>
                   \/ \E i \in 1..Len(call.icd10) : IsSubstring(call.dx, call.icd10[i])))
        /\ call.step_type \in Icd9Partial =>
              (call.icd9_filter <=>
                  (call.icd9 = <<>>
                   \/ \E i \in 1..Len(call.icd9) : IsSubstring(call.px, call.icd9[i])))

\* two procedure codes requested, the record stores only one of them: it passes
C12_Witness ==
    /\ IcdCall
    /\ call.step_type = "icd9_only_partial"
    /\ call.icd9 = <<CodeB, CodeA>>
    /\ call.px = CodeA
    /\ call.icd9_filter

\* the requested codes behind a score column
CodesOf(column) == IF column = "icd10_match_count" THEN call.icd10 ELSE call.icd9
FieldOf(column) == IF column = "icd10_match_count" THEN call.dx ELSE call.px

\* C13: the score columns of the exact-mode steps that select one (steps 1
\* and 16) are boolean: 1 when codes of the family were requested, else 0
\* (scores are kept in tenths)
C13_ExactScoreBoolean ==
    ColumnsCall /\ call.step \in {1, 16} =>
        \A col \in call.columns : col[2] = IF CodesOf(col[1]) # <<>> THEN 10 ELSE 0

\* the number of ;-delimited codes of a stored field
DelimitedCount(field) == Cardinality({i \in 1..Len(field) : field[i] = ";"}) + 1

\* requested codes (with multiplicity) that occur in the stored field
MatchedCodes(codes, field) == Cardinality({i \in 1..Len(codes) : IsSubstring(field, codes[i])})

\* C14: the score columns of steps 15 and 17 are the number of requested
\* codes of the family that occur in the stored field, minus 0.1 exactly when
\* the stored field holds more codes than were requested; 0 when no code of
\* the family was requested (scores are kept in tenths)
C14_EnhancedScore ==
    ColumnsCall /\ call.step \in {15, 17} =>
        \A col \in call.columns :
            col[2] = IF CodesOf(col[1]) = <<>> THEN 0
                     ELSE 10 * MatchedCodes(CodesOf(col[1]), FieldOf(col[1]))
                          - (IF DelimitedCount(FieldOf(col[1])) > Len(CodesOf(col[1]))
                             THEN 1 ELSE 0)

\* step 15, two diagnosis codes requested, the record stores three codes of
\* which both occur: 2 - 0.1
C14_Witness ==
    /\ ColumnsCall
    /\ call.step = 15
    /\ Len(call.icd10) = 2
    /\ DelimitedCount(call.dx) = 3
    /\ <<"icd10_match_count", 19>> \in call.columns

\* the call applied _calculate_age_and_los; Parsed: without a parse failure
NormalizeCall == call.op = "normalize"
Parsed == NormalizeCall /\ ~call.raised

\* date a is not after date b
DateLeq(a, b) ==
    \/ a[1] < b[1]
    \/ a[1] = b[1] /\ a[2] < b[2]
    \/ a[1] = b[1] /\ a[2] = b[2] /\ a[3] <= b[3]

\* the n-th anniversary of the birth date is reached at the event date
Reached(birth, event, n) ==
    DateLeq(<<birth.y + n, birth.m, birth.d>>, <<event.y, event.m, event.d>>)

\* C15: when the dates parse, the age is the number of whole years between
\* the birth date and the event date: the last anniversary reached
C15_AgeIsFloor ==
    Parsed =>
        LET birth == call.input.birthdate
            event == call.input.admission_date
            age == call.output.calculated_age
        IN /\ Reached(birth, event, age)
           /\ ~Reached(birth, event, age + 1)
           /\ age = (event.y - birth.y)
                    - (IF <<event.m, event.d>> \in
                             {<<m, d>> \in (1..12) \X (1..31) :
                                 m < birth.m \/ (m = birth.m /\ d < birth.d)}
                       THEN 1 ELSE 0)

\* the event falls on the day before the birthday
C15_Witness ==
    /\ Parsed
    /\ call.input.birthdate = DateText("date", 2000, 3, 10)
    /\ call.input.admission_date.m = 3 /\ call.input.admission_date.d = 9
    /\ call.input.admission_date.y = 2020
    /\ call.output.calculated_age = 19

\* C16: the examples with date-only texts: birth 2000-03-10 with event
\* 2020-03-09 gives age 19, with event 2020-03-10 age 20; start 2021-01-01
\* with end 2021-01-04 gives duration 3
C16_DateOnlyExamples ==
    NormalizeCall /\ call.input.birthdate = DateText("date", 2000, 3, 10) =>
        /\ call.input.admission_date = DateText("date", 2020, 3, 9) =>
              call.output.calculated_age = 19
        /\ call.input.admission_date = DateText("date", 2020, 3, 10) =>
              call.output.calculated_age = 20
        /\ /\ call.input.admission_date = DateText("date", 2021, 1, 1)
           /\ call.input.discharge_date = DateText("date", 2021, 1, 4)
           => call.output.calculated_los = LosDays(3)

\* days before month m in a year
DaysBeforeMonth(y, m) ==
    LET leap == (y % 4 = 0 /\ y % 100 # 0) \/ y % 400 = 0
        table == <<0, 31, 59, 90, 120, 151, 181, 212, 243, 273, 304, 334>>
    IN table[m] + (IF leap /\ m > 2 THEN 1 ELSE 0)

\* the number of a calendar day
DayNumber(t) ==
    365 * (t.y - 1) + (t.y - 1) \div 4 - (t.y - 1) \div 100 + (t.y - 1) \div 400
    + DaysBeforeMonth(t.y, t.m) + t.d

\* C17: with an end date the duration is the number of calendar days from the
\* event date to the end date, whatever the times of day; without one it is
\* unknown.  A duration of 0 and an unknown duration differ: in step 1 a
\* duration of 0 keeps only the records stored with stay length 0 and unknown
\* keeps every record, and the difference key of a duration of 0 is the stored
\* stay length while that of unknown is 0
C17_DurationOrUnknown ==
    Parsed =>
        LET los == call.output.calculated_los
        IN /\ call.input.discharge_date.form # "none" =>
                 /\ los.known
                 /\ los.days = DayNumber(call.input.discharge_date)
                               - DayNumber(call.input.admission_date)
           /\ call.input.discharge_date.form = "none" => los = LosUnknown
           /\ \A row \in Store :
                 /\ ~los.known => call.los_condition[row.AdmissionId]
                                  /\ call.los_diff[row.AdmissionId] = 0
                 /\ los.known /\ los.days = 0 =>
                       /\ call.los_condition[row.AdmissionId] <=> row.LengthOfStay = <<"0">>
                       /\ call.los_diff[row.AdmissionId] = Abs(ToInt32OrZero(row.LengthOfStay))

\* event and end on the same calendar day, at different hours: duration 0,
\* and a record stored with stay length 3 is refused by step 1
C17_Witness ==
    /\ Parsed
    /\ call.input.admission_date.h = 23 /\ call.input.discharge_date.h = 0
    /\ call.output.calculated_los = LosDays(0)
    /\ ~call.los_condition[1]
    /\ call.los_diff[1] = 3

\* the search of slot s was started (the request was not refused)
Started(s) == pc[s] # "idle" /\ req[s] # NoRequest /\ ~Rejected(req[s])

\* the duration-difference component of the sort key of a step from 5 on
\* (the key ends with age, duration and date difference)
KeyLosDiff(key) == key[Len(key) - 1]
WithoutLosDiff(key) == SubSeq(key, 1, Len(key) - 2) \o <<key[Len(key)]>>

\* the stored stay length as a number: the digits of the text, 0 for a text
\* that is not a number
RECURSIVE StoredDays(_)
StoredDays(text) ==
    IF text = <<>> \/ \E i \in 1..Len(text) : ~IsDigit(text[i]) THEN 0
    ELSE IF Len(text) = 1 THEN DigitVal(text[1])
    ELSE 10 * StoredDays(SubSeq(text, 1, Len(text) - 1)) + DigitVal(text[Len(text)])

\* C18: in the steps that sort by the duration difference (5 to 17), with an
\* unknown duration the key is 0 for every record and the order of two
\* records is the one the other keys give; with a known duration the key is
\* the absolute difference of the stored stay length and the duration
C18_LosDiffKey ==
    \A s \in Slots : pc[s] = "query" /\ stage[s] >= 5 =>
        LET pd == processed_data[s]
            k == stage[s]
        IN \A a, b \in Store :
              /\ ~pd.calculated_los.known =>
                    /\ KeyLosDiff(SortKey(k, pd, a)) = 0
                    /\ LexLeq(SortKey(k, pd, a), SortKey(k, pd, b))
                       <=> LexLeq(WithoutLosDiff(SortKey(k, pd, a)),
                                  WithoutLosDiff(SortKey(k, pd, b)))
              /\ pd.calculated_los.known =>
                    KeyLosDiff(SortKey(k, pd, a))
                        = Abs(StoredDays(a.LengthOfStay) - pd.calculated_los.days)

\* step 7 in flight with an unknown duration and candidates of different
\* stored stay lengths
C18_Witness ==
    /\ pc[1] = "query"
    /\ stage[1] = 7
    /\ ~processed_data[1].calculated_los.known
    /\ \E a, b \in StepCandidates(7, processed_data[1], inflight[1]) :
          StoredDays(a.LengthOfStay) # StoredDays(b.LengthOfStay)

\* a date text the normalizer cannot use: missing, or not in the format read
\* for that field
Unusable(text, forms) == text.form \notin forms

\* the event or birth date is missing or unparseable, or a given end date is
\* unparseable
NormalizationFails(c) ==
    \/ Unusable(c.admission_date, {"iso", "mysql"})
    \/ Unusable(c.birthdate, {"date"})
    \/ Unusable(c.discharge_date, {"iso", "mysql", "none"})

\* what C19 says of the search of slot s
DegradedSearch(s) ==
    /\ processed_data[s].calculated_age = 0
    /\ processed_data[s].calculated_los = LosUnknown
    /\ processed_data[s].formatted_admission_date = SearchInput(req[s]).admission_date
    /\ processed_data[s].formatted_birth_date = SearchInput(req[s]).birthdate
    /\ processed_data[s].crit = SearchInput(req[s])
    /\ pc[s] \in {"query", "enrich", "done"}
    /\ req[s].max_results > 0 => queries[s] \cup failed[s] # {}
    /\ Searched(s) /\ Len(own[s]) < req[s].max_results =>
          Steps \subseteq queries[s] \cup failed[s]

\* C19 (as amended): when the event or birth date is missing or unparseable,
\* or a given end date is unparseable, the search goes on: age 0, duration
\* unknown, the raw event and birth texts passed through, the other criteria
\* unchanged, and the steps are walked as for any search
C19_NormalizationFailureDegrades ==
    \A s \in Slots : Started(s) /\ NormalizationFails(SearchInput(req[s])) => DegradedSearch(s)

\* C19 (as stated): the same whenever any of the three dates is missing or
\* unparseable, a missing end date included
C19_AnyMissingDateDegrades ==
    \A s \in Slots :
        /\ Started(s)
        /\ \/ NormalizationFails(SearchInput(req[s]))
           \/ SearchInput(req[s]).discharge_date.form = "none"
        => DegradedSearch(s)

\* an unparseable end date with good event and birth dates: a later step is in
\* flight with the defaults and the raw texts
C19_Witness ==
    /\ pc[1] = "query"
    /\ stage[1] >= 2
    /\ req[1].fields.discharge_date = BadDate
    /\ processed_data[1].calculated_age = 0
    /\ processed_data[1].formatted_birth_date = DateText("date", 2000, 3, 10)
    /\ processed_data[1].formatted_admission_date = DateText("mysql", 2021, 1, 4)

\* procedure codes and no diagnosis code
ProcedureOnly(c) == c.icd10 = <<>> /\ c.icd9 # <<>>

\* the matches of the steps up to k
UpTo(list, k) == SelectSeq(list, LAMBDA r : GetStepNumber(r) <= k)

\* for procedure-only criteria no step from 1 to 13 looks at the diagnosis
\* field of a record
DiagnosisIgnored(s) ==
    \A k \in 1..13 : \A row \in Store : \A dx \in StoredFields :
        StepFilter(k, processed_data[s], row)
            <=> StepFilter(k, processed_data[s], [row EXCEPT !.DiseaseClassification = dx])

\* C20 (as amended): for procedure-only criteria the diagnosis filter of steps
\* 1-13 is vacuous; step 16 is executed whenever steps 1-15 accumulated fewer
\* than max_results matches, and step 17 whenever steps 1-16 did
C20_ProcedureOnlyReachesLastSteps ==
    \A s \in Slots : Started(s) /\ ProcedureOnly(processed_data[s].crit) =>
        /\ DiagnosisIgnored(s)
        /\ Searched(s) =>
              /\ Len(UpTo(own[s], 15)) < req[s].max_results => 16 \in queries[s] \cup failed[s]
              /\ Len(UpTo(own[s], 16)) < req[s].max_results => 17 \in queries[s] \cup failed[s]

\* C20 (as stated): steps 16 and 17 are both executed whenever steps 1-15
\* accumulated fewer than max_results matches
C20_BothLastStepsExecuted ==
    \A s \in Slots : Started(s) /\ ProcedureOnly(processed_data[s].crit) =>
        /\ DiagnosisIgnored(s)
        /\ Searched(s) /\ Len(UpTo(own[s], 15)) < req[s].max_results =>
              {16, 17} \subseteq queries[s] \cup failed[s]

\* a procedure-only search that found too little up to step 15 and whose
\* steps 16 and 17 were queried, step 17 finding records
C20_Witness ==
    /\ Searched(1)
    /\ ProcedureOnly(processed_data[1].crit)
    /\ Len(UpTo(own[1], 15)) < req[1].max_results
    /\ {16, 17} \subseteq queries[1] \ failed[1]
    /\ \E i \in 1..Len(own[1]) : GetStepNumber(own[1][i]) = 17

\* C21: a billing lookup that fails or finds nothing leaves the match in the
\* unified response with its base fields and step tag, billing_data empty and
\* has_billing false; no lookup outcome removes or reorders a match
C21_LookupFailureKeepsMatch ==
    call.op = "unified" =>
        /\ call.response.success
        /\ Len(call.response.results) = Len(call.rows)
        /\ \A i \in 1..Len(call.rows) :
              LET a == call.response.results[i]
                  r == call.rows[i]
                  stored == CHOOSE row \in Store : row.AdmissionId = r.AdmissionId
              IN /\ a.admission_id = r.AdmissionId
                 /\ a.found_in_step = r.result_step
                 /\ a.doctor = stored.PrimaryDoctor
                 /\ a.length_of_stay = stored.LengthOfStay
                 /\ call.lookups[i] = "raises" \/ SalesItemsOf(r.AdmissionId) = <<>> =>
                       ~a.has_billing /\ a.billing_data.items = <<>> /\ ~a.billing_data.found

\* the lookup of the first of three matches raises, the second has billing
\* data, the third has no line items
C21_Witness ==
    /\ call.op = "unified"
    /\ Len(call.rows) = 3
    /\ call.lookups[1] = "raises" /\ SalesItemsOf(call.rows[1].AdmissionId) # <<>>
    /\ call.response.results[2].has_billing
    /\ call.lookups[3] = "rows" /\ SalesItemsOf(call.rows[3].AdmissionId) = <<>>

\* the historical line items the billing endpoint got for the top admission
Historical == SalesItemsOf(call.rows[1].AdmissionId)

\* the billing endpoint got line items of the top admission
BillingCall ==
    /\ call.op = "billing"
    /\ call.rows # <<>>
    /\ call.lookup = "rows"
    /\ Historical # <<>>

\* the price recalculation failed: error, timeout, status other than 200 or
\* an empty answer
RecalculationFailed == call.pricing.kind # "ok" \/ call.pricing.items = <<>>

\* a recalculated price came back for the item with this id
PriceCameBack(id) ==
    \E j \in 1..Len(call.pricing.items) :
        call.pricing.items[j].sales_item_id = id /\ call.pricing.items[j].priced

\* C22: after a failed recalculation the billing items are the historical
\* items with their historical amounts; after a successful one they are the
\* historical items one for one in the same order, and an item for which no
\* recalculated price came back keeps its historical amount
C22_HistoricalFallback ==
    BillingCall =>
        LET items == call.response.billing_items
        IN /\ Len(items) = Len(Historical)
           /\ \A i \in 1..Len(items) :
                 /\ items[i].sales_item_id = Historical[i].sales_item_id
                 /\ items[i].admission_id = Historical[i].admission_id
                 /\ RecalculationFailed \/ ~PriceCameBack(Historical[i].sales_item_id) =>
                       items[i].item_net_amount = Historical[i].item_net_amount

\* a step of slot s that leaves a query of its search dispatched
Dispatches(s) ==
    /\ pc'[s] = "query"
    /\ \/ pc[s] # "query"
       \/ stage'[s] # stage[s]
       \/ own'[s] # own[s]
       \/ failed'[s] # failed[s]

\* C23: the steps of one search run one after the other in ascending order:
\* the query of a later step is dispatched only when the outstanding one has
\* returned or failed and its rows are in the exclusion set it is built with;
\* a step passed over raised, and no step is dispatched twice
C23_StepsSequential ==
    [][\A s \in Slots : Dispatches(s) =>
          /\ inflight'[s] = IdsOf(own'[s])
          /\ \A k \in queries'[s] \cup failed'[s] : k <= stage'[s]
          /\ stage'[s] \notin failed'[s]
          /\ IF pc[s] = "query"
             THEN /\ stage'[s] > stage[s]
                  /\ stage'[s] \notin queries[s] \cup failed[s]
                  /\ \A k \in (stage[s] + 1)..(stage'[s] - 1) : k \in failed'[s]
                  /\ \/ stage[s] \in failed'[s] /\ own'[s] = own[s]
                     \/ /\ stage[s] \notin failed'[s]
                        /\ Len(own'[s]) >= Len(own[s])
                        /\ SubSeq(own'[s], 1, Len(own[s])) = own[s]
                        /\ \A i \in (Len(own[s]) + 1)..Len(own'[s]) :
                              GetStepNumber(own'[s][i]) = stage[s]
             ELSE \A k \in 1..(stage'[s] - 1) : k \in failed'[s]]_vars

\* step 6 is outstanding after step 5 returned rows that its query excludes
C23_Witness ==
    /\ pc[1] = "query"
    /\ stage[1] = 6
    /\ 5 \in queries[1] \ failed[1]
    /\ \E i \in 1..Len(own[1]) : GetStepNumber(own[1][i]) = 5
    /\ IdsOf(own[1]) \subseteq inflight[1]

\* C24: for the criteria of every search, a record that passes the filter of
\* step k also passes the filter of step k + 1, for k = 1, 2, 3
C24_FirstStepsRelax ==
    \A s \in Slots : Started(s) =>
        \A k \in 1..3 : \A row \in Store :
            StepFilter(k, processed_data[s], row) => StepFilter(k + 1, processed_data[s], row)

\* the value of the column of this name in the tuple of the recorded call
ColumnNamed(name) ==
    LET i == CHOOSE j \in 1..Len(call.columns) : call.columns[j].name = name
    IN call.columns[i].value

\* C25: for a row of any step, format_results_for_api reports the row's
\* age-difference column as age_diff, its date-difference column as date_diff
\* and its step tag as result_step
C25_CalculatedFieldsByName ==
    call.op = "format" =>
        /\ call.document.given
        /\ call.document.age_diff = ColumnNamed("age_diff")
        /\ call.document.date_diff = ColumnNamed("date_diff")
        /\ call.document.result_step = ColumnNamed("result_step")

C28_CapDropsTail ==
    \A s \in Slots : Searched(s) =>
        LET acc == own[s]
            out == outcome[s]
            pd == processed_data[s]
        IN /\ Len(out) = Min(Len(acc), req[s].max_results)
           /\ out = SubSeq(acc, 1, Len(out))
           /\ \A i, j \in 1..Len(acc) : i < j => GetStepNumber(acc[i]) <= GetStepNumber(acc[j])
           /\ \A i \in (Len(out) + 1)..Len(acc) : \A j \in 1..Len(out) :
                 /\ GetStepNumber(out[j]) <= GetStepNumber(acc[i])
                 /\ GetStepNumber(out[j]) = GetStepNumber(acc[i]) =>
                       LexLeq(SortKey(GetStepNumber(acc[i]), pd, StoreRow(out[j].AdmissionId)),
                              SortKey(GetStepNumber(acc[i]), pd, StoreRow(acc[i].AdmissionId)))

\* a search that kept a record of an earlier step and cut the rows of its
\* last step between two records of different rank
C28_Witness ==
    /\ Searched(1)
    /\ Len(outcome[1]) >= 2
    /\ Len(own[1]) > Len(outcome[1])
    /\ GetStepNumber(own[1][1]) < GetStepNumber(own[1][Len(own[1])])
    /\ GetStepNumber(own[1][Len(outcome[1])]) = GetStepNumber(own[1][Len(own[1])])
    /\ ~LexLeq(SortKey(GetStepNumber(own[1][Len(own[1])]), processed_data[1],
                       StoreRow(own[1][Len(own[1])].AdmissionId)),
               SortKey(GetStepNumber(own[1][Len(own[1])]), processed_data[1],
                       StoreRow(own[1][Len(outcome[1])].AdmissionId)))

\* a request to one of the two endpoints without free-text query, with
\* max_results in its range and a value in one of the criteria fields
StructuredWithCriteria(r) ==
    /\ r.endpoint \in {"unified", "billing"}
    /\ ~r.query
    /\ MaxResultsOk(r)
    /\ \E f \in ExtractFields : Given(r, f)

\* C29: a structured request without free-text query and with a value in any
\* one criteria field is accepted and reaches the cascade: validation and the
\* controller's checks let it pass, and it is never answered with the
\* rejection
C29_AnyCriteriaFieldAccepted ==
    \A s \in Slots : (pc[s] # "idle" /\ StructuredWithCriteria(req[s])) =>
        /\ RequestValid(req[s])
        /\ AnyCriteria(ExtractStructuredData(req[s]))
        /\ pc[s] = "done" => response[s] # RejectionOf(req[s])

====
